---- MODULE Spec2Model ----
(***************************************************************************)
(* Model of the vigIA fire-map consumers: the burn-time reduction, the     *)
(* frame sampler and the max_time / normalisation steps of                 *)
(*   scripts/visualize_openstreetmap.py  (FireSimulationVisualizer)        *)
(*   scripts/export_geojson.py           (export_to_geojson)               *)
(*   scripts/animate_fire_spread.py      (FireAnimationGenerator)          *)
(* A run loads one fire_map (the StateStack), picks one script and walks   *)
(* through it; every iteration of a loop over t is one step (Spec).        *)
(* Indices are 0-based as in the source: fire_map[t][y][x].                *)
(* The colour functions and the projection are also run alone, on inputs   *)
(* no fire_map would hand them: ColorSpec calls time_to_color and          *)
(* time_to_color_rgb over a range of burn times, GeoSpec and ConfigSpec    *)
(* run the coordinate set-up and the projection of one pixel.              *)
(***************************************************************************)
EXTENDS Integers, Sequences, FiniteSets, TLC

\* Largest T*H*W of an enumerated fire_map.
MaxVolume == 5
\* Largest declared grid_height / grid_width (metadata area.screen_size).
MaxDeclared == 2
\* sample_rate ranges over -1..MaxStride.
MaxStride == 2
\* Largest T*H*W of the stacks compared pairwise (C4).
MaxPairVolume == 4

VARIABLES
    fire_map,         \* np.load(fire_map.npy): [0..T-1 -> [0..H-1 -> [0..W-1 -> 0..2]]]
    shape,            \* fire_map.shape = <<T, H, W>>
    script,           \* which consumer runs: "visualize", "export" or "animate"
    pc,               \* position inside the script
    error,            \* "none" or the exception that ended the run
    grid,             \* <<grid_height, grid_width>> from the metadata, <<0, 0>> before _setup_coordinates
    burn_time,        \* the burn-time matrix being filled (<<>> before np.full)
    t,                \* loop variable of the running loop over time
    max_time,         \* burn_time.max() once computed
    features,         \* export_to_geojson: the GeoJSON features
    geojson_metadata, \* export_to_geojson: the "metadata" object
    stats,            \* get_statistics()
    rectangles,       \* create_map: one entry per folium.Rectangle of the fire layer
    legend,           \* create_map: the legend's colour stops and its printed max_time
    sample_rate,      \* prepare_animation_data argument
    frames_data,      \* prepare_animation_data: frames collected so far
    anim_data,        \* prepare_animation_data: the returned payload
    palette,          \* colour functions called alone: [fn, colormap, max_time] of the calls
    gradient,         \* colour functions called alone: the results for burn_time = -1, 0, 1, ...
    config,           \* projection called alone: metadata["config"], [operational, area]
    cell,             \* projection called alone: the pixel <<x, y>> that is projected
    coords,           \* projection called alone: what _setup_coordinates stored
    projection,       \* projection called alone: the latitudes and longitudes computed
    fire_pos,         \* fire-start marker: the configured fire.fire_initial_position.static.position
    fire_start,       \* fire-start marker: the pixel and the location of the marker placed
    currentFrame,     \* player: let currentFrame
    isPlaying,        \* player: let isPlaying
    playInterval,     \* player: let playInterval, a timer id, 0 for null
    timers,           \* player: the intervals installed by setInterval and not cleared
    speed,            \* player: let speed, the delay of the next setInterval
    lastBurnedFrame,  \* player: let lastBurnedFrame
    burnedRects,      \* player: const burnedRects, the cache [{time, rect}]
    burnedLayer,      \* player: the rectangles of the layer group burnedLayer
    burningLayer,     \* player: the rectangles of the layer group burningLayer
    reference         \* projection called alone: the visualizer's bounds of the same pixel,
                      \* kept when another script is run on the same data (<<>> before)

vars == <<fire_map, shape, script, pc, error, grid, burn_time, t, max_time,
          features, geojson_metadata, stats, rectangles, legend,
          sample_rate, frames_data, anim_data, palette, gradient,
          config, cell, coords, projection, fire_pos, fire_start,
          currentFrame, isPlaying, playInterval, timers, speed, lastBurnedFrame,
          burnedRects, burnedLayer, burningLayer, reference>>

\* The variables of the runs that call one function alone; a script leaves them untouched.
callVars == <<palette, gradient, config, cell, coords, projection, fire_pos, fire_start,
              currentFrame, isPlaying, playInterval, timers, speed, lastBurnedFrame,
              burnedRects, burnedLayer, burningLayer, reference>>

\* The state of the script of the generated page.
playerVars == <<currentFrame, isPlaying, playInterval, timers, speed, lastBurnedFrame,
                burnedRects, burnedLayer, burningLayer>>

\* The variables of the generated page: its fire-start marker and its player.
pageVars == <<fire_pos, fire_start, playerVars>>

\* What a script computes from its fire_map.
runVars == <<fire_map, shape, grid, burn_time, t, max_time, features, geojson_metadata,
             stats, rectangles, legend, sample_rate, frames_data, anim_data>>

\* Placeholder of a value that has not been computed yet.
None == "None"

\* "Estado da animacao" and the empty layers and cache, as the page's script declares them.
PlayerLoaded ==
    /\ currentFrame = 0
    /\ isPlaying = FALSE
    /\ playInterval = 0
    /\ timers = {}
    /\ speed = 500
    /\ lastBurnedFrame = -1
    /\ burnedRects = <<>>
    /\ burnedLayer = <<>>
    /\ burningLayer = <<>>

\* No page is being generated.
NoPage ==
    /\ fire_pos = None
    /\ fire_start = None
    /\ PlayerLoaded

----------------------------------------------------------------------------
(* Inputs *)

\* The shapes (T, H, W) of the enumerated arrays; T = 0 is the empty stack.
Shapes ==
    {s \in (0..MaxVolume) \X (1..MaxVolume) \X (1..MaxVolume) :
        (IF s[1] = 0 THEN 1 ELSE s[1]) * s[2] * s[3] <= MaxVolume}

Stacks(s) == [0..(s[1] - 1) -> [0..(s[2] - 1) -> [0..(s[3] - 1) -> 0..2]]]

\* The worked example of the specification (T = 3, 2 x 2).
ScenarioShape == <<3, 2, 2>>

ScenarioStates ==
    [tt \in 0..2 |->
        [y \in 0..1 |->
            [x \in 0..1 |->
                IF y = 1 THEN 0
                ELSE IF tt = 0 THEN 0
                ELSE IF tt = 1 THEN (IF x = 0 THEN 1 ELSE 0)
                ELSE (IF x = 0 THEN 2 ELSE 1)]]]

Scripts == {"visualize", "export", "animate"}

DeclaredGrids == (1..MaxDeclared) \X (1..MaxDeclared)

SampleRates == -1..MaxStride

----------------------------------------------------------------------------
(* numpy helpers *)

T == shape[1]
H == shape[2]
W == shape[3]

Rows(m) == Cardinality(DOMAIN m)
Cols(m) == Cardinality(DOMAIN m[0])

\* np.full((h, w), v)
Full(h, w, v) == [y \in 0..(h - 1) |-> [x \in 0..(w - 1) |-> v]]

\* numpy broadcasting of one axis: equal lengths, or one of them is 1.
Broadcastable(a, b) == a = b \/ a = 1 \/ b = 1
BroadcastDim(a, b) == IF a = 1 THEN b ELSE a
BroadcastIndex(n, i) == IF n = 1 THEN 0 ELSE i

\* Variant of NewlyBurning without "& (burn_time == -1)": the last write wins.
NewlyBurning_Overwrite(frame, bt) ==
    [y \in 0..(BroadcastDim(Rows(frame), Rows(bt)) - 1) |->
        [x \in 0..(BroadcastDim(Cols(frame), Cols(bt)) - 1) |->
            frame[BroadcastIndex(Rows(frame), y)][BroadcastIndex(Cols(frame), x)] >= 1]]

\* Variant of NewlyBurning with "> 1" for ">= 1": a burning cell is not an ignition.
NewlyBurning_OnlyBurned(frame, bt) ==
    [y \in 0..(BroadcastDim(Rows(frame), Rows(bt)) - 1) |->
        [x \in 0..(BroadcastDim(Cols(frame), Cols(bt)) - 1) |->
            /\ frame[BroadcastIndex(Rows(frame), y)][BroadcastIndex(Cols(frame), x)] > 1
            /\ bt[BroadcastIndex(Rows(bt), y)][BroadcastIndex(Cols(bt), x)] = -1]]

\* newly_burning = (fire_map[t] >= 1) & (burn_time == -1), on broadcastable shapes
NewlyBurning(frame, bt) ==
    [y \in 0..(BroadcastDim(Rows(frame), Rows(bt)) - 1) |->
        [x \in 0..(BroadcastDim(Cols(frame), Cols(bt)) - 1) |->
            /\ frame[BroadcastIndex(Rows(frame), y)][BroadcastIndex(Cols(frame), x)] >= 1
            /\ bt[BroadcastIndex(Rows(bt), y)][BroadcastIndex(Cols(bt), x)] = -1]]

\* Variant of ReduceStep that writes the 1-based index t + 1.
ReduceStep_OneBased(frame, bt, tt) ==
    IF ~(Broadcastable(Rows(frame), Rows(bt)) /\ Broadcastable(Cols(frame), Cols(bt)))
    THEN [error |-> "ValueError", burn_time |-> bt]
    ELSE LET mask == NewlyBurning(frame, bt) IN
         IF Rows(mask) # Rows(bt) \/ Cols(mask) # Cols(bt)
         THEN [error |-> "IndexError", burn_time |-> bt]
         ELSE [error |-> "none",
               burn_time |-> [y \in DOMAIN bt |-> [x \in DOMAIN bt[y] |->
                                 IF mask[y][x] THEN tt + 1 ELSE bt[y][x]]]]

\* One iteration of the reduction loop:
\*     newly_burning = (fire_map[t] >= 1) & (burn_time == -1)
\*     burn_time[newly_burning] = t
\* The & raises ValueError on shapes that do not broadcast; the boolean-mask
\* assignment raises IndexError when the mask's shape is not burn_time's.
ReduceStep(frame, bt, tt) ==
    IF ~(Broadcastable(Rows(frame), Rows(bt)) /\ Broadcastable(Cols(frame), Cols(bt)))
    THEN [error |-> "ValueError", burn_time |-> bt]
    ELSE LET mask == NewlyBurning(frame, bt) IN
         IF Rows(mask) # Rows(bt) \/ Cols(mask) # Cols(bt)
         THEN [error |-> "IndexError", burn_time |-> bt]
         ELSE [error |-> "none",
               burn_time |-> [y \in DOMAIN bt |-> [x \in DOMAIN bt[y] |->
                                 IF mask[y][x] THEN tt ELSE bt[y][x]]]]

\* The whole reduction of a stack of the loaded shape, as export_burn_time_matrix runs it:
\* np.full, then the loop over every t.
RECURSIVE ReduceFrom(_, _, _)
ReduceFrom(stack, bt, tt) ==
    IF tt >= shape[1] THEN bt
    ELSE ReduceFrom(stack, ReduceStep(stack[tt], bt, tt).burn_time, tt + 1)

BurnTimeMatrixOf(stack) == ReduceFrom(stack, Full(shape[2], shape[3], -1), 0)

\* ndarray.max()
MatrixMax(m) ==
    LET vals == {m[y][x] : y \in DOMAIN m, x \in DOMAIN m[0]}
    IN CHOOSE v \in vals : \A w \in vals : w <= v

\* The cells (x, y) in the order of "for y in range(h): for x in range(w)".
RECURSIVE CellsFrom(_, _, _)
CellsFrom(i, h, w) ==
    IF i >= h * w THEN <<>>
    ELSE <<[x |-> i % w, y |-> i \div w]>> \o CellsFrom(i + 1, h, w)

CellOrder(h, w) == CellsFrom(0, h, w)

\* int(): truncation towards zero of n / d, d > 0
Trunc(n, d) == IF n >= 0 THEN n \div d ELSE 0 - ((0 - n) \div d)

\* a / b on numbers. A zero divisor gives no number (ZeroDivisionError on Python ints,
\* nan or inf with a RuntimeWarning on numpy scalars): undefined is TRUE.
Divide(a, b) ==
    IF b = 0 THEN [undefined |-> TRUE, num |-> a, den |-> b]
    ELSE [undefined |-> FALSE, num |-> a, den |-> b]

Zero == [undefined |-> FALSE, num |-> 0, den |-> 1]

IsZero(q) == ~q.undefined /\ q.num = 0

----------------------------------------------------------------------------
(* Initial state: the files are loaded, nothing is computed yet. *)

Init ==
    /\ \E s \in Shapes \cup {ScenarioShape} :
          /\ shape = s
          /\ IF s = ScenarioShape
             THEN fire_map = ScenarioStates
             ELSE fire_map \in Stacks(s)
    /\ script \in Scripts
    /\ pc = "start"
    /\ error = "none"
    /\ grid = <<0, 0>>
    /\ burn_time = <<>>
    /\ t = 0
    /\ max_time = None
    /\ features = <<>>
    /\ geojson_metadata = None
    /\ stats = None
    /\ rectangles = <<>>
    /\ legend = None
    /\ sample_rate = None
    /\ frames_data = <<>>
    /\ anim_data = None
    /\ palette = None
    /\ gradient = <<>>
    /\ config = None
    /\ cell = <<0, 0>>
    /\ coords = None
    /\ projection = None
    /\ reference = <<>>
    /\ NoPage

----------------------------------------------------------------------------
(* scripts/export_geojson.py: export_to_geojson *)

\* Variant of burn_time_normalized without the "if max_time > 0" guard.
burn_time_normalized_Unguarded(bt, mt) == Divide(bt, mt)

\* "burn_time_normalized": float(bt / max_time) if max_time > 0 else 0
burn_time_normalized(bt, mt) == IF mt > 0 THEN Divide(bt, mt) ELSE Zero

\* grid_height, grid_width = fire_map.shape[1], fire_map.shape[2]
\* burn_time = np.full((grid_height, grid_width), -1, dtype=np.int32)
export_to_geojson_begin ==
    /\ script = "export" /\ pc = "start"
    /\ UNCHANGED callVars
    /\ burn_time' = Full(H, W, -1)
    /\ t' = 0
    /\ pc' = "reduce"
    /\ UNCHANGED <<fire_map, shape, script, error, grid, max_time, features,
                   geojson_metadata, stats, rectangles, legend, sample_rate,
                   frames_data, anim_data>>

\* for t in range(fire_map.shape[0]): ...
export_to_geojson_reduce ==
    /\ script = "export" /\ pc = "reduce" /\ t < T
    /\ UNCHANGED callVars
    /\ burn_time' = ReduceStep(fire_map[t], burn_time, t).burn_time
    /\ t' = t + 1
    /\ UNCHANGED <<fire_map, shape, script, pc, error, grid, max_time, features,
                   geojson_metadata, stats, rectangles, legend, sample_rate,
                   frames_data, anim_data>>

\* time_to_color_rgb: the grey (128, 128, 128) for burn_time < 0 or max_time <= 0,
\* without normalising; else the gradient colour of t = burn_time / max_time.
time_to_color_rgb(bt, mt) ==
    IF bt < 0 \/ mt <= 0 THEN [grey |-> TRUE]
    ELSE [grey |-> FALSE, t |-> Divide(bt, mt)]

\* The properties of the feature of one burned cell.
Feature(c, bt, mt) ==
    [pixel_x |-> c.x, pixel_y |-> c.y, burn_time |-> bt,
     burn_time_normalized |-> burn_time_normalized(bt, mt),
     color_rgb |-> time_to_color_rgb(bt, mt)]

\* max_time = burn_time.max(); the features of the cells with bt >= 0; the metadata.
export_to_geojson_emit ==
    /\ script = "export" /\ pc = "reduce" /\ t = T
    /\ UNCHANGED callVars
    /\ LET mt == MatrixMax(burn_time)
           Burned(c) == burn_time[c.y][c.x] >= 0
           cells == SelectSeq(CellOrder(H, W), Burned)
       IN /\ max_time' = mt
          /\ features' = [i \in 1..Len(cells) |->
                             Feature(cells[i], burn_time[cells[i].y][cells[i].x], mt)]
          /\ geojson_metadata' = [simulation_frames |-> T,
                                  max_burn_time |-> mt,
                                  total_pixels |-> H * W,
                                  burned_pixels |-> Len(cells)]
    /\ pc' = "done"
    /\ UNCHANGED <<fire_map, shape, script, error, grid, burn_time, t, stats,
                   rectangles, legend, sample_rate, frames_data, anim_data>>

----------------------------------------------------------------------------
(* scripts/visualize_openstreetmap.py: FireSimulationVisualizer and main *)

\* The metadata's area.screen_size: that of the run that wrote fire_map.npy, or another.
ScreenSizes == {<<H, W>>} \cup DeclaredGrids

\* final_shape = self.fire_map.shape[1:]; burn_time = np.full(final_shape, -1, dtype=np.int32)
compute_burn_time_matrix_begin ==
    /\ script = "visualize" /\ pc = "start"
    /\ UNCHANGED callVars
    /\ burn_time' = Full(H, W, -1)
    /\ t' = 0
    /\ pc' = "reduce"
    /\ UNCHANGED <<fire_map, shape, script, error, grid, max_time, features,
                   geojson_metadata, stats, rectangles, legend, sample_rate,
                   frames_data, anim_data>>

\* for t in range(self.fire_map.shape[0]): ...
compute_burn_time_matrix_step ==
    /\ script = "visualize" /\ pc = "reduce" /\ t < T
    /\ UNCHANGED callVars
    /\ burn_time' = ReduceStep(fire_map[t], burn_time, t).burn_time
    /\ t' = t + 1
    /\ UNCHANGED <<fire_map, shape, script, pc, error, grid, max_time, features,
                   geojson_metadata, stats, rectangles, legend, sample_rate,
                   frames_data, anim_data>>

\* return burn_time; then __init__ goes on with _setup_coordinates
visualizer_setup_coordinates ==
    /\ script = "visualize" /\ pc = "reduce" /\ t = T
    /\ UNCHANGED callVars
    /\ grid' \in ScreenSizes
    /\ pc' = "constructed"
    /\ UNCHANGED <<fire_map, shape, script, error, burn_time, t, max_time, features,
                   geojson_metadata, stats, rectangles, legend, sample_rate,
                   frames_data, anim_data>>

\* the number of cells of m equal to v: (m == v).sum()
CountEqual(m, v) == Cardinality({c \in (DOMAIN m) \X (DOMAIN m[0]) : m[c[1]][c[2]] = v})

\* main: stats = viz.get_statistics(). last_frame = self.fire_map[-1] needs T >= 1.
get_statistics ==
    /\ script = "visualize" /\ pc = "constructed"
    /\ UNCHANGED callVars
    /\ IF T = 0
       THEN /\ error' = "IndexError"
            /\ pc' = "failed"
            /\ UNCHANGED stats
       ELSE /\ stats' = [total_pixels |-> H * W,
                         burned_pixels |-> CountEqual(fire_map[T - 1], 2),
                         simulation_frames |-> T,
                         max_burn_time |-> MatrixMax(burn_time)]
            /\ pc' = "stats"
            /\ UNCHANGED error
    /\ UNCHANGED <<fire_map, shape, script, grid, burn_time, t, max_time, features,
                   geojson_metadata, rectangles, legend, sample_rate, frames_data,
                   anim_data>>

\* time_to_color without its "burn_time < 0" test: a palette colour for every burn_time.
time_to_color_NoSentinel(bt, mt) ==
    [unburned |-> FALSE, t |-> IF mt > 0 THEN Divide(bt, mt) ELSE Zero]

\* time_to_color normalising by max_time + 1: t stays below 1.
time_to_color_ShortOfOne(bt, mt) ==
    IF bt < 0 THEN [unburned |-> TRUE]
    ELSE [unburned |-> FALSE, t |-> IF mt > 0 THEN Divide(bt, mt + 1) ELSE Zero]

\* time_to_color: None for burn_time < 0, else the colour of
\*     t = burn_time / max_time if max_time > 0 else 0
time_to_color(bt, mt) ==
    IF bt < 0 THEN [unburned |-> TRUE]
    ELSE [unburned |-> FALSE, t |-> IF mt > 0 THEN Divide(bt, mt) ELSE Zero]

\* _create_legend_html: for i in range(6): t = int(i * max_time / 5); time_to_color(t, ...)
create_legend_html(mt) ==
    [max_time |-> mt,
     colors |-> [i \in 1..6 |->
                    [time |-> Trunc((i - 1) * mt, 5),
                     color |-> time_to_color(Trunc((i - 1) * mt, 5), mt)]]]

\* main: m = viz.create_map(...). The loops run over the declared grid and index
\* burn_time_matrix[y, x], whose shape is the array's.
create_map ==
    /\ script = "visualize" /\ pc = "stats"
    /\ UNCHANGED callVars
    /\ LET mt == MatrixMax(burn_time)
           Burned(c) == burn_time[c.y][c.x] >= 0
       IN /\ max_time' = mt
          /\ IF grid[1] > H \/ grid[2] > W
             THEN /\ error' = "IndexError"
                  /\ pc' = "failed"
                  /\ UNCHANGED <<rectangles, legend>>
             ELSE /\ LET cells == SelectSeq(CellOrder(grid[1], grid[2]), Burned)
                     IN rectangles' =
                            [i \in 1..Len(cells) |->
                                [x |-> cells[i].x, y |-> cells[i].y,
                                 burn_time |-> burn_time[cells[i].y][cells[i].x],
                                 color |-> time_to_color(
                                     burn_time[cells[i].y][cells[i].x], mt)]]
                  /\ legend' = create_legend_html(mt)
                  /\ pc' = "done"
                  /\ UNCHANGED error
    /\ UNCHANGED <<fire_map, shape, script, grid, burn_time, t, features,
                   geojson_metadata, stats, sample_rate, frames_data, anim_data>>

----------------------------------------------------------------------------
(* scripts/animate_fire_spread.py: FireAnimationGenerator *)

\* __init__: self._setup_coordinates() reads the declared grid from the metadata.
animation_setup_coordinates ==
    /\ script = "animate" /\ pc = "start"
    /\ UNCHANGED callVars
    /\ grid' \in ScreenSizes
    /\ pc' = "constructed"
    /\ UNCHANGED <<fire_map, shape, script, error, burn_time, t, max_time, features,
                   geojson_metadata, stats, rectangles, legend, sample_rate,
                   frames_data, anim_data>>

\* pixel_to_latlon: the cell centre, (x + 0.5) and (y + 0.5) cells from the north-west
\* corner; held in half cells east of west_lon and north of north_lat.
pixel_to_latlon(x, y) == [lat |-> 0 - (2 * y + 1), lon |-> 2 * x + 1]

\* prepare_animation_data(sample_rate): total_frames, frames_data = [] and the
\* range(0, total_frames, sample_rate) of the first loop; range() raises ValueError
\* on a zero step.
prepare_animation_data_begin ==
    /\ script = "animate" /\ pc = "constructed"
    /\ UNCHANGED callVars
    /\ \E rate \in SampleRates :
          /\ sample_rate' = rate
          /\ IF rate = 0
             THEN error' = "ValueError" /\ pc' = "failed"
             ELSE error' = error /\ pc' = "frames"
    /\ frames_data' = <<>>
    /\ t' = 0
    /\ UNCHANGED <<fire_map, shape, script, grid, burn_time, max_time, features,
                   geojson_metadata, stats, rectangles, legend, anim_data>>

\* Variant of NextSample that ignores the stride.
NextSample_EveryFrame(tt, rate) == tt + 1

\* The next value of range(0, total_frames, sample_rate) after tt.
NextSample(tt, rate) == tt + rate

\* Variant of CellsWithStatus that takes "status >= v" for "status == v".
CellsWithStatus_AtLeast(frame, v) ==
    LET Has(c) == frame[c.y][c.x] >= v
    IN SelectSeq(CellOrder(grid[1], grid[2]), Has)

\* The cells of the declared grid whose status in frame is v, in loop order.
CellsWithStatus(frame, v) ==
    LET Has(c) == frame[c.y][c.x] = v
    IN SelectSeq(CellOrder(grid[1], grid[2]), Has)

\* One iteration of "for t in range(0, total_frames, sample_rate)": frame[y, x] is read
\* for every cell of the declared grid (IndexError outside the array).
prepare_animation_data_frame ==
    /\ script = "animate" /\ pc = "frames"
    /\ UNCHANGED callVars
    /\ sample_rate > 0 /\ t < T
    /\ IF grid[1] > H \/ grid[2] > W
       THEN /\ error' = "IndexError"
            /\ pc' = "failed"
            /\ UNCHANGED <<frames_data, t>>
       ELSE /\ LET burning_pixels == CellsWithStatus(fire_map[t], 1)
                   burned_pixels == CellsWithStatus(fire_map[t], 2)
               IN frames_data' = Append(frames_data,
                      [time |-> t,
                       burning |-> [i \in 1..Len(burning_pixels) |->
                                       pixel_to_latlon(burning_pixels[i].x,
                                                       burning_pixels[i].y)],
                       burned_count |-> Len(burned_pixels),
                       burning_count |-> Len(burning_pixels)])
            /\ t' = NextSample(t, sample_rate)
            /\ UNCHANGED <<error, pc>>
    /\ UNCHANGED <<fire_map, shape, script, grid, burn_time, max_time, features,
                   geojson_metadata, stats, rectangles, legend, sample_rate, anim_data>>

\* Variant of prepare_animation_data_matrix that allocates the matrix with np.zeros.
prepare_animation_data_matrix_Zeros ==
    /\ script = "animate" /\ pc = "frames"
    /\ UNCHANGED callVars
    /\ sample_rate < 0 \/ t >= T
    /\ burn_time' = Full(grid[1], grid[2], 0)
    /\ t' = 0
    /\ pc' = "reduce"
    /\ UNCHANGED <<fire_map, shape, script, error, grid, max_time, features,
                   geojson_metadata, stats, rectangles, legend, sample_rate,
                   frames_data, anim_data>>

\* The range is exhausted (at once for a negative sample_rate):
\* burn_time_matrix = np.full((self.grid_height, self.grid_width), -1)
prepare_animation_data_matrix ==
    /\ script = "animate" /\ pc = "frames"
    /\ UNCHANGED callVars
    /\ sample_rate < 0 \/ t >= T
    /\ burn_time' = Full(grid[1], grid[2], -1)
    /\ t' = 0
    /\ pc' = "reduce"
    /\ UNCHANGED <<fire_map, shape, script, error, grid, max_time, features,
                   geojson_metadata, stats, rectangles, legend, sample_rate,
                   frames_data, anim_data>>

\* for t in range(total_frames): the array's frame against the declared-shape matrix
prepare_animation_data_reduce ==
    /\ script = "animate" /\ pc = "reduce" /\ t < T
    /\ UNCHANGED callVars
    /\ LET r == ReduceStep(fire_map[t], burn_time, t)
       IN /\ burn_time' = r.burn_time
          /\ error' = r.error
          /\ IF r.error = "none"
             THEN t' = t + 1 /\ pc' = pc
             ELSE t' = t /\ pc' = "failed"
    /\ UNCHANGED <<fire_map, shape, script, grid, max_time, features,
                   geojson_metadata, stats, rectangles, legend, sample_rate,
                   frames_data, anim_data>>

\* burned_pixels_with_time and the returned dict
prepare_animation_data_return ==
    /\ script = "animate" /\ pc = "reduce" /\ t = T
    /\ UNCHANGED callVars
    /\ LET Burned(c) == burn_time[c.y][c.x] >= 0
           cells == SelectSeq(CellOrder(grid[1], grid[2]), Burned)
       IN anim_data' =
              [frames |-> frames_data,
               total_frames |-> T,
               sample_rate |-> sample_rate,
               burned_pixels |->
                   [i \in 1..Len(cells) |->
                       [lat |-> pixel_to_latlon(cells[i].x, cells[i].y).lat,
                        lon |-> pixel_to_latlon(cells[i].x, cells[i].y).lon,
                        time |-> burn_time[cells[i].y][cells[i].x]]],
               grid |-> [width |-> grid[2], height |-> grid[1]]]
    /\ pc' = "done"
    /\ UNCHANGED <<fire_map, shape, script, error, grid, burn_time, t, max_time,
                   features, geojson_metadata, stats, rectangles, legend,
                   sample_rate, frames_data>>

----------------------------------------------------------------------------

Next ==
    \/ export_to_geojson_begin
    \/ export_to_geojson_reduce
    \/ export_to_geojson_emit
    \/ compute_burn_time_matrix_begin
    \/ compute_burn_time_matrix_step
    \/ visualizer_setup_coordinates
    \/ get_statistics
    \/ create_map
    \/ animation_setup_coordinates
    \/ prepare_animation_data_begin
    \/ prepare_animation_data_frame
    \/ prepare_animation_data_matrix
    \/ prepare_animation_data_reduce
    \/ prepare_animation_data_return

Spec == Init /\ [][Next]_vars

----------------------------------------------------------------------------
(* The colour functions called alone: time_to_color of                     *)
(* scripts/visualize_openstreetmap.py and time_to_color_rgb of             *)
(* scripts/export_geojson.py, with what float arithmetic does to them.     *)

\* Largest max_time handed to a colour function called alone.
MaxTime == 8

\* --colormap choices of visualize_openstreetmap.py
Colormaps == {"YlOrRd", "inferno", "Reds"}

RECURSIVE GCD(_, _)
GCD(a, b) == IF b = 0 THEN a ELSE GCD(b, a % b)

RECURSIVE IsPowerOfTwo(_)
IsPowerOfTwo(n) == n = 1 \/ (n > 1 /\ n % 2 = 0 /\ IsPowerOfTwo(n \div 2))

\* t = burn_time / max_time is a binary fraction: the float holds it, and every
\* product and sum the palettes build from it, without rounding.
Dyadic(q) == IsPowerOfTwo(q.den \div GCD(q.num, q.den))

\* int(x) for the float x that the code computes for the real number n / d (d > 0).
\* Rounding moves x by far less than 1 / d, so int(x) is the truncation of n / d
\* unless n / d is an integer reached through rounded steps: then x may lie just
\* on the side of zero of it and int(x) is one nearer to zero.
IntOfFloat(n, d, exact) ==
    IF exact \/ n % d # 0 THEN {Trunc(n, d)}
    ELSE LET k == n \div d
         IN IF k > 0 THEN {k - 1, k} ELSE IF k < 0 THEN {k, k + 1} ELSE {0}

\* The (r, g, b) a palette can return: one record per outcome of the roundings.
RGB(R, G, B) == [r : R, g : G, b : B]

\* time_to_color, colormap == "YlOrRd"; t = q.num / q.den
YlOrRd(q) ==
    LET n == q.num
        d == q.den
        e == Dyadic(q)
    IN IF 2 * n < d
       THEN RGB({255},
                IntOfFloat(255 * d - (255 - 165) * (n * 2), d, e),
                IntOfFloat(200 * (d - n * 2), d, e))
       ELSE RGB(IntOfFloat(255 * d - (255 - 139) * (n * 2 - d), d, e),
                IntOfFloat(165 * (d - (n * 2 - d)), d, e),
                {0})

\* time_to_color, colormap == "inferno"
inferno(q) ==
    LET n == q.num
        d == q.den
        e == Dyadic(q)
    IN IF 4 * n < d
       THEN RGB(IntOfFloat(n * 4 * 120, d, e), {0}, IntOfFloat(n * 4 * 150, d, e))
       ELSE IF 2 * n < d
       THEN RGB(IntOfFloat(120 * d + (255 - 120) * (n * 4 - d), d, e),
                IntOfFloat((n * 4 - d) * 100, d, e),
                IntOfFloat(150 * (d - (n * 4 - d)), d, e))
       ELSE IF 4 * n < 3 * d
       THEN RGB({255}, IntOfFloat(100 * d + (200 - 100) * (n * 4 - 2 * d), d, e), {0})
       ELSE RGB({255},
                IntOfFloat(200 * d + (255 - 200) * (n * 4 - 3 * d), d, e),
                IntOfFloat((n * 4 - 3 * d) * 150, d, e))

\* time_to_color, any other colormap ("Reds"); intensity = 1 - t
Reds(q) ==
    LET n == q.num
        d == q.den
        e == Dyadic(q)
        intensity == d - n
    IN RGB(IntOfFloat(139 * d + (255 - 139) * intensity, d, e),
           IntOfFloat(69 * (d - intensity), d, e),
           IntOfFloat(19 * (d - intensity), d, e))

\* What time_to_color(burn_time, max_time, colormap) can return: None, or the hex
\* string of (r, g, b), kept as its three numbers.
time_to_color_hex(bt, mt, colormap) ==
    LET c == time_to_color(bt, mt)
    IN IF c.unburned THEN {[none |-> TRUE]}
       ELSE LET rgb == IF colormap = "YlOrRd" THEN YlOrRd(c.t)
                       ELSE IF colormap = "inferno" THEN inferno(c.t)
                       ELSE Reds(c.t)
            IN {[none |-> FALSE, r |-> k.r, g |-> k.g, b |-> k.b] : k \in rgb}

\* time_to_color_rgb whose green channel climbs twice as fast and wraps at 256.
RedToWhite_Sawtooth(q) ==
    LET n == q.num
        d == q.den
    IN IF 2 * n < d
       THEN RGB({255}, {Trunc(255 * (n * 4), d) % 256}, {0})
       ELSE RGB({255}, {255}, {Trunc(255 * (n * 2 - d), d)})

\* time_to_color_rgb, the branches on t
RedToWhite(q) ==
    LET n == q.num
        d == q.den
        e == Dyadic(q)
    IN IF 2 * n < d
       THEN RGB({255}, IntOfFloat(255 * (n * 2), d, e), {0})
       ELSE RGB({255}, {255}, IntOfFloat(255 * (n * 2 - d), d, e))

\* What time_to_color_rgb(burn_time, max_time) can return.
time_to_color_rgb_tuple(bt, mt) ==
    LET c == time_to_color_rgb(bt, mt)
    IN IF c.grey THEN {[r |-> 128, g |-> 128, b |-> 128]} ELSE RedToWhite(c.t)

\* The burn times a run hands to the function: -1, 0, ..., max_time + 1.
LastTime(mt) == IF mt > 0 THEN mt + 1 ELSE 1

\* One call of time_to_color with the next burn_time.
apply_time_to_color ==
    /\ script = "time_to_color"
    /\ LET bt == Len(gradient) - 1
       IN /\ bt <= LastTime(palette.max_time)
          /\ \E c \in time_to_color_hex(bt, palette.max_time, palette.colormap) :
                gradient' = Append(gradient, [burn_time |-> bt, color |-> c])
    /\ UNCHANGED <<script, pc, error, runVars, palette, config, cell, coords, projection, pageVars, reference>>

\* One call of time_to_color_rgb with the next burn_time.
apply_time_to_color_rgb ==
    /\ script = "time_to_color_rgb"
    /\ LET bt == Len(gradient) - 1
       IN /\ bt <= LastTime(palette.max_time)
          /\ \E c \in time_to_color_rgb_tuple(bt, palette.max_time) :
                gradient' = Append(gradient, [burn_time |-> bt, color |-> c])
    /\ UNCHANGED <<script, pc, error, runVars, palette, config, cell, coords, projection, pageVars, reference>>

\* No fire_map is loaded and no script runs.
NoScript ==
    /\ fire_map = <<>>
    /\ shape = <<0, 1, 1>>
    /\ error = "none"
    /\ grid = <<0, 0>>
    /\ burn_time = <<>>
    /\ t = 0
    /\ max_time = None
    /\ features = <<>>
    /\ geojson_metadata = None
    /\ stats = None
    /\ rectangles = <<>>
    /\ legend = None
    /\ sample_rate = None
    /\ frames_data = <<>>
    /\ anim_data = None

\* A colour function, a max_time and (for time_to_color) a colormap are chosen.
ColorInit ==
    /\ NoScript
    /\ pc = "start"
    /\ config = None
    /\ cell = <<0, 0>>
    /\ coords = None
    /\ projection = None
    /\ reference = <<>>
    /\ NoPage
    /\ script \in {"time_to_color", "time_to_color_rgb"}
    /\ palette \in [colormap : IF script = "time_to_color" THEN Colormaps ELSE {None},
                    max_time : -1 .. MaxTime]
    /\ gradient = <<>>

ColorNext == apply_time_to_color \/ apply_time_to_color_rgb

ColorSpec == ColorInit /\ [][ColorNext]_vars

----------------------------------------------------------------------------
(* The projection called alone: _setup_coordinates, pixel_to_latlon and    *)
(* get_pixel_bounds of the visualizer, _setup_coordinates of the animation *)
(* and pixel_to_polygon of the export, for one metadata "config" and one   *)
(* pixel. Latitudes and longitudes are floats; the model keeps of each     *)
(*   half: its place as a real number, in half cells south of north_lat    *)
(*         (east of west_lon), and                                         *)
(*   ulp:  which of the floats next to that real number the rounded        *)
(*         arithmetic produced, numbered 0..MaxUlp; 0 when nothing rounds. *)
(* A float expression has one value per run, whatever it is: it is chosen  *)
(* once, when first computed, and read from projection afterwards.         *)

\* The floats a rounded result can be are numbered 0..MaxUlp.
MaxUlp == 1

Roundings == 0..MaxUlp

Float(k, e) == [half |-> k, ulp |-> e]

\* op.get("latitude", -16.571175), in millionths of a degree
DefaultLatitude == -16571175
\* op.get("longitude", -49.181467), in millionths of a degree
DefaultLongitude == -49181467
\* area.get("screen_size", [100, 100])
DefaultScreenSize == <<100, 100>>
\* area.get("pixel_scale", 50)
DefaultPixelScale == 50

\* The dicts holding some of the keys of the record full, with its values.
Dicts(full) == {[k \in S |-> full[k]] : S \in SUBSET DOMAIN full}

\* metadata["config"] with all four keys, the grid being any declared one.
FullConfigs ==
    {[operational |-> [latitude |-> 10500000, longitude |-> 20250000],
      area |-> [screen_size |-> g, pixel_scale |-> 30]] : g \in DeclaredGrids}

\* metadata["config"] with any of the four keys missing.
Configs ==
    UNION {[operational : Dicts(c.operational), area : Dicts(c.area)] : c \in FullConfigs}

\* dict.get(key, default)
Get(d, key, default) == IF key \in DOMAIN d THEN d[key] ELSE default

\* _setup_coordinates (the same code in both classes): the values read with their
\* defaults, and the four limits. north_lat and west_lon are the origin of the model's
\* coordinates; rs and re are the roundings of center - delta / 2 and center + delta / 2.
SetupCoordinates(rs, re) ==
    LET op == config.operational
        area == config.area
        screen_size == Get(area, "screen_size", DefaultScreenSize)
    IN [center_lat |-> Get(op, "latitude", DefaultLatitude),
        center_lon |-> Get(op, "longitude", DefaultLongitude),
        grid_height |-> screen_size[1],
        grid_width |-> screen_size[2],
        pixel_scale_ft |-> Get(area, "pixel_scale", DefaultPixelScale),
        north_lat |-> Float(0, 0),
        south_lat |-> Float(2 * screen_size[1], rs),
        west_lon |-> Float(0, 0),
        east_lon |-> Float(2 * screen_size[2], re)]

\* FireSimulationVisualizer.__init__: self._setup_coordinates()
visualizer_coordinates ==
    /\ script = "visualize" /\ pc = "setup"
    /\ \E rs, re \in Roundings : coords' = SetupCoordinates(rs, re)
    /\ pc' = "project"
    /\ UNCHANGED <<script, error, runVars, palette, gradient, config, cell, projection, pageVars, reference>>

\* FireAnimationGenerator.__init__: self._setup_coordinates()
animation_coordinates ==
    /\ script = "animate" /\ pc = "setup"
    /\ \E rs, re \in Roundings : coords' = SetupCoordinates(rs, re)
    /\ pc' = "project"
    /\ UNCHANGED <<script, error, runVars, palette, gradient, config, cell, projection, pageVars, reference>>

\* The arguments pixel_to_latlon is called with along one axis, for the pixel at i of
\* a grid of n cells: the corners 0 and n of the grid, the pixel's own corners i and
\* i + 1.
CornersOf(i, n) == {0, i, i + 1, n}

\* pixel_to_latlon over the corners of the grid and of the pixel:
\*     lon = west_lon + (x / grid_width) * delta_lon
\*     lat = north_lat - (y / grid_height) * delta_lat
\* x = 0 gives west_lon + 0.0, which is west_lon; every other x rounds.
visualizer_pixel_to_latlon ==
    /\ script = "visualize" /\ pc = "project"
    /\ LET Xs == CornersOf(cell[1], coords.grid_width)
           Ys == CornersOf(cell[2], coords.grid_height)
       IN \E rx \in [Xs -> Roundings], ry \in [Ys -> Roundings] :
             /\ rx[0] = 0
             /\ ry[0] = 0
             /\ projection' = [lon |-> [x \in Xs |-> Float(2 * x, rx[x])],
                               lat |-> [y \in Ys |-> Float(2 * y, ry[y])]]
    /\ pc' = "projected"
    /\ UNCHANGED <<script, error, runVars, palette, gradient, config, cell, coords, pageVars, reference>>

\* pixel_to_latlon(x, y) of the visualizer, once computed
visualizer_latlon(x, y) == [lat |-> projection.lat[y], lon |-> projection.lon[x]]

\* get_pixel_bounds(x, y): [[se_lat, nw_lon], [nw_lat, se_lon]]
get_pixel_bounds(x, y) ==
    LET nw == visualizer_latlon(x, y)
        se == visualizer_latlon(x + 1, y + 1)
    IN <<<<se.lat, nw.lon>>, <<nw.lat, se.lon>>>>

\* The corners held in a [[south, west], [north, east]] list.
north_west(b) == [lat |-> b[2][1], lon |-> b[1][2]]
south_east(b) == [lat |-> b[1][1], lon |-> b[2][2]]

\* The roundings at and at' of the export's corners i and i + 1 along an axis of n cells
\* are those of the visualizer's corners a and b: for n a power of two, i * (delta / n)
\* and (i / n) * delta are the same float, and so are the sums with west_lon or north_lat.
SameProduct(n, at, after, a, b) == IsPowerOfTwo(n) => (at = a.ulp /\ after = b.ulp)

\* pixel_to_polygon of the export, for the pixel and for its neighbours to the east
\* and to the south. config[...][...] raises KeyError for a missing key. Else
\*     nw_lon = west_lon + (x * pixel_lon)      se_lon = nw_lon + pixel_lon
\*     nw_lat = north_lat - (y * pixel_lat)     se_lat = nw_lat - pixel_lat
\* x = 0 gives nw_lon = west_lon; x = 1 gives west_lon + pixel_lon, which is also the
\* se_lon of x = 0; every other sum rounds on its own.
pixel_to_polygon ==
    /\ script = "export" /\ pc = "setup"
    /\ IF \/ {"latitude", "longitude"} # DOMAIN config.operational
          \/ {"screen_size", "pixel_scale"} # DOMAIN config.area
       THEN /\ error' = "KeyError"
            /\ pc' = "failed"
            /\ UNCHANGED <<coords, projection>>
       ELSE /\ coords' = [center_lat |-> config.operational.latitude,
                          center_lon |-> config.operational.longitude,
                          grid_height |-> config.area.screen_size[1],
                          grid_width |-> config.area.screen_size[2],
                          pixel_scale_ft |-> config.area.pixel_scale,
                          north_lat |-> Float(0, 0),
                          west_lon |-> Float(0, 0)]
            /\ LET Xs == {0, cell[1], cell[1] + 1}
                   Ys == {0, cell[2], cell[2] + 1}
               IN \E nx \in [Xs -> Roundings], ny \in [Ys -> Roundings],
                     sx, sy \in Roundings :
                     /\ nx[0] = 0
                     /\ ny[0] = 0
                     /\ cell[1] = 0 => sx = nx[1]
                     /\ cell[2] = 0 => sy = ny[1]
                     /\ reference # <<>> =>
                            /\ SameProduct(config.area.screen_size[2],
                                           nx[cell[1]], nx[cell[1] + 1],
                                           north_west(reference).lon,
                                           south_east(reference).lon)
                            /\ SameProduct(config.area.screen_size[1],
                                           ny[cell[2]], ny[cell[2] + 1],
                                           north_west(reference).lat,
                                           south_east(reference).lat)
                     /\ projection' =
                           [nw_lon |-> [x \in Xs |-> Float(2 * x, nx[x])],
                            nw_lat |-> [y \in Ys |-> Float(2 * y, ny[y])],
                            se_lon |-> Float(2 * (cell[1] + 1), sx),
                            se_lat |-> Float(2 * (cell[2] + 1), sy)]
            /\ error' = error
            /\ pc' = "projected"
    /\ UNCHANGED <<script, runVars, palette, gradient, config, cell, pageVars, reference>>

\* The north-west corner pixel_to_polygon(x, y) computes.
nw_corner(x, y) == [lat |-> projection.nw_lat[y], lon |-> projection.nw_lon[x]]

\* The south-east corner pixel_to_polygon computes for the pixel of the run.
se_corner == [lat |-> projection.se_lat, lon |-> projection.se_lon]

\* The ring pixel_to_polygon returns: NW, NE, SE, SW, NW, each [lon, lat].
ring ==
    LET nw == nw_corner(cell[1], cell[2])
        se == se_corner
    IN <<<<nw.lon, nw.lat>>, <<se.lon, nw.lat>>, <<se.lon, se.lat>>, <<nw.lon, se.lat>>,
         <<nw.lon, nw.lat>>>>

\* The rectangle the page draws for the pixel: pixel_to_latlon gives the centre,
\*     lon = west_lon + ((x + 0.5) / grid_width) * delta_lon
\*     lat = north_lat - ((y + 0.5) / grid_height) * delta_lat
\* prepare_animation_data gives pixel_size = delta / grid size, and createPixelRect
\* returns [[lat - halfLat, lon - halfLon], [lat + halfLat, lon + halfLon]]. Every sum
\* rounds on its own; for x = 0 the west edge comes back to west_lon itself, for y = 0
\* the north edge to north_lat.
animation_pixel_rect ==
    /\ script = "animate" /\ pc = "project"
    /\ \E c \in [{"lat", "lon"} -> Roundings],
          e \in [{"south", "west", "north", "east"} -> Roundings] :
          /\ cell[1] = 0 => e.west = 0
          /\ cell[2] = 0 => e.north = 0
          /\ projection' =
                [center |-> [lat |-> Float(2 * cell[2] + 1, c.lat),
                             lon |-> Float(2 * cell[1] + 1, c.lon)],
                 rect |-> << <<Float(2 * (cell[2] + 1), e.south),
                               Float(2 * cell[1], e.west)>>,
                             <<Float(2 * cell[2], e.north),
                               Float(2 * (cell[1] + 1), e.east)>> >>]
    /\ pc' = "projected"
    /\ UNCHANGED <<script, error, runVars, palette, gradient, config, cell, coords, pageVars,
                   reference>>

\* After the visualizer, the export or the animation is run on the same data
\* directory: the same config and pixel, with the bounds the visualizer drew kept for
\* comparison.
run_on_same_data ==
    /\ script = "visualize" /\ pc = "projected"
    /\ reference' = get_pixel_bounds(cell[1], cell[2])
    /\ script' \in {"export", "animate"}
    /\ pc' = "setup"
    /\ coords' = None
    /\ projection' = None
    /\ UNCHANGED <<error, runVars, palette, gradient, config, cell, pageVars>>

\* The pixels of a grid.
PixelsOf(g) == {<<x, y>> : x \in 0..(g[2] - 1), y \in 0..(g[1] - 1)}

\* A complete config is loaded and one pixel of its grid is chosen.
GeoInit ==
    /\ NoScript
    /\ script \in Scripts
    /\ pc = "setup"
    /\ palette = None
    /\ gradient = <<>>
    /\ config \in FullConfigs
    /\ cell \in PixelsOf(config.area.screen_size)
    /\ coords = None
    /\ projection = None
    /\ reference = <<>>
    /\ NoPage

\* Any config is loaded, complete or not; the pixel is (0, 0).
ConfigInit ==
    /\ NoScript
    /\ script \in Scripts
    /\ pc = "setup"
    /\ palette = None
    /\ gradient = <<>>
    /\ config \in Configs
    /\ cell = <<0, 0>>
    /\ coords = None
    /\ projection = None
    /\ reference = <<>>
    /\ NoPage

GeoNext ==
    \/ visualizer_coordinates
    \/ animation_coordinates
    \/ visualizer_pixel_to_latlon
    \/ pixel_to_polygon
    \/ animation_pixel_rect

GeoSpec == GeoInit /\ [][GeoNext]_vars

ConfigSpec == ConfigInit /\ [][GeoNext]_vars

\* The visualizer is run first.
PairInit == GeoInit /\ script = "visualize"

PairNext == GeoNext \/ run_on_same_data

PairSpec == PairInit /\ [][PairNext]_vars

----------------------------------------------------------------------------
(* The fire-start marker of create_map and generate_html *)

\* Longest enumerated position string.
MaxText == 5

\* The characters the enumerated position strings are written with.
Chars == {"(", ")", ",", " ", "1", "2", "x"}

\* A Python str, as the sequence of its characters.
Texts == UNION {[1..k -> Chars] : k \in 0..MaxText}

\* Position strings longer than MaxText: the default, and two with a third field.
Examples ==
    { <<"(", "5", "0", ",", " ", "7", "0", ")">>,
      <<"(", "1", ",", " ", "2", ",", " ", "1", ")">>,
      <<"(", "5", "0", ",", " ", "7", "0", ",", " ", "1", ")">> }

\* What the config may hold under fire.fire_initial_position.static.position: nothing,
\* a string, or a numeric pair [x, y].
Positions ==
    {[kind |-> "absent"]}
        \cup {[kind |-> "str", text |-> s] : s \in Texts \cup Examples}
        \cup {[kind |-> "pair", x |-> p[1], y |-> p[2]] :
                 p \in (0..MaxDeclared) \X (0..MaxDeclared)}

\* The default of .get("position", "(50, 70)").
DefaultPosition == <<"(", "5", "0", ",", " ", "7", "0", ")">>

RECURSIVE lstrip(_, _)
\* str.lstrip(chars): the leading characters that are in chars are removed.
lstrip(s, chars) ==
    IF s # <<>> /\ Head(s) \in chars THEN lstrip(Tail(s), chars) ELSE s

RECURSIVE rstrip(_, _)
\* str.rstrip(chars): the trailing characters that are in chars are removed.
rstrip(s, chars) ==
    IF s # <<>> /\ s[Len(s)] \in chars THEN rstrip(SubSeq(s, 1, Len(s) - 1), chars) ELSE s

\* str.strip(chars)
strip(s, chars) == rstrip(lstrip(s, chars), chars)

RECURSIVE SplitFrom(_, _, _)
\* The fields of s after the field being read, which is put first.
SplitFrom(s, sep, field) ==
    IF s = <<>> THEN <<field>>
    ELSE IF Head(s) = sep THEN <<field>> \o SplitFrom(Tail(s), sep, <<>>)
    ELSE SplitFrom(Tail(s), sep, Append(field, Head(s)))

\* str.split(sep): always at least one field, possibly empty.
split(s, sep) == SplitFrom(s, sep, <<>>)

Digits == <<"0", "1", "2", "3", "4", "5", "6", "7", "8", "9">>

DigitChars == {Digits[i] : i \in 1..10}

\* The characters of the literal that int() reads: surrounding whitespace is dropped.
\* (Of Python's integer syntax only spaces, a sign and decimal digits are modelled.)
Literal(f) == strip(f, {" "})

\* The literal without its sign.
Magnitude(f) ==
    IF Literal(f) # <<>> /\ Head(Literal(f)) \in {"-", "+"}
    THEN Tail(Literal(f)) ELSE Literal(f)

\* int(f) returns a value; otherwise it raises ValueError.
IsInt(f) == Magnitude(f) # <<>> /\ \A i \in 1..Len(Magnitude(f)) : Magnitude(f)[i] \in DigitChars

RECURSIVE Decimal(_)
\* The number written by a sequence of digits.
Decimal(d) ==
    IF d = <<>> THEN 0
    ELSE 10 * Decimal(SubSeq(d, 1, Len(d) - 1))
            + (CHOOSE v \in 0..9 : Digits[v + 1] = d[Len(d)])

\* int(f) of a field for which IsInt holds.
int(f) ==
    IF Head(Literal(f)) = "-" THEN 0 - Decimal(Magnitude(f)) ELSE Decimal(Magnitude(f))

\* "Parse da posicao": a string is stripped of parentheses, split at the commas, and
\* int() is taken of the first two fields, left to right; any other value gives (50, 70).
\* generate_html strips each field before int(), which int() does by itself.
parse_fire_position(pos) ==
    IF pos.kind = "pair" THEN [error |-> "none", x |-> 50, y |-> 70]
    ELSE LET text == IF pos.kind = "absent" THEN DefaultPosition ELSE pos.text
             fields == split(strip(text, {"(", ")"}), ",")
         IN IF ~IsInt(fields[1]) THEN [error |-> "ValueError"]
            ELSE IF Len(fields) < 2 THEN [error |-> "IndexError"]
            ELSE IF ~IsInt(fields[2]) THEN [error |-> "ValueError"]
            ELSE [error |-> "none", x |-> int(fields[1]), y |-> int(fields[2])]

\* The visualizer's pixel_to_latlon: the north-west corner of the pixel, x and y cells
\* from the north-west corner of the grid; held in half cells like pixel_to_latlon.
corner_to_latlon(x, y) == [lat |-> 0 - 2 * y, lon |-> 2 * x]

\* The marker at a parsed position, or the exception of the parse.
FireStart(parsed, location) ==
    /\ error' = parsed.error
    /\ IF parsed.error = "none"
       THEN /\ fire_start' = [x |-> parsed.x, y |-> parsed.y,
                              lat |-> location.lat, lon |-> location.lon]
            /\ pc' = "done"
       ELSE /\ fire_start' = fire_start
            /\ pc' = "failed"

\* create_map(show_fire_start=True): the position is parsed and the folium.Marker is
\* put at self.pixel_to_latlon(fire_x, fire_y).
create_map_fire_start ==
    /\ script = "visualize" /\ pc = "marker"
    /\ LET parsed == parse_fire_position(fire_pos)
       IN FireStart(parsed, IF parsed.error = "none"
                            THEN corner_to_latlon(parsed.x, parsed.y) ELSE None)
    /\ UNCHANGED <<script, runVars, palette, gradient, config, cell, coords, projection,
                   fire_pos, playerVars, reference>>

\* generate_html: the position is parsed and fireStart is written into the page at
\* self.pixel_to_latlon(fire_x, fire_y), the centre of the pixel.
generate_html_fire_start ==
    /\ script = "animate" /\ pc = "marker"
    /\ LET parsed == parse_fire_position(fire_pos)
       IN FireStart(parsed, IF parsed.error = "none"
                            THEN pixel_to_latlon(parsed.x, parsed.y) ELSE None)
    /\ UNCHANGED <<script, runVars, palette, gradient, config, cell, coords, projection,
                   fire_pos, playerVars, reference>>

\* A config with some position is loaded and the map or the page is about to get its
\* fire-start marker.
MarkerInit ==
    /\ NoScript
    /\ script \in {"visualize", "animate"}
    /\ pc = "marker"
    /\ palette = None
    /\ gradient = <<>>
    /\ config = None
    /\ cell = <<0, 0>>
    /\ coords = None
    /\ projection = None
    /\ reference = <<>>
    /\ fire_pos \in Positions
    /\ fire_start = None
    /\ PlayerLoaded

MarkerNext == create_map_fire_start \/ generate_html_fire_start

MarkerSpec == MarkerInit /\ [][MarkerNext]_vars

----------------------------------------------------------------------------
(* The player of the generated page (the script of _generate_html_template) *)

\* Largest total_frames of the enumerated pages.
MaxFrames == 4

\* Width of the one-row grid of the enumerated pages.
MaxCells == 2

\* range(0, total, rate) of a non-zero rate, as a sequence.
FrameTimes(total, rate) ==
    IF rate < 0 \/ total = 0 THEN <<>>
    ELSE [i \in 1..((total + rate - 1) \div rate) |-> (i - 1) * rate]

\* The columns of the row, in loop order.
ColumnOrder == [i \in 1..MaxCells |-> i - 1]

\* The dict prepare_animation_data returns for a fire_map of total snapshots of one row
\* in which the cell of column x is unburned before time ignition[x], burning at that
\* time and burned after it (never burning when ignition[x] = -1).
AnimationData(total, rate, ignition) ==
    LET times == FrameTimes(total, rate)
        burned == SelectSeq(ColumnOrder, LAMBDA x : ignition[x] >= 0)
    IN [frames |->
            [i \in 1..Len(times) |->
                LET burning == SelectSeq(ColumnOrder, LAMBDA x : ignition[x] = times[i])
                IN [time |-> times[i],
                    burning |-> [k \in 1..Len(burning) |-> pixel_to_latlon(burning[k], 0)],
                    burned_count |->
                        Len(SelectSeq(ColumnOrder,
                                      LAMBDA x : ignition[x] >= 0 /\ ignition[x] < times[i])),
                    burning_count |-> Len(burning)]],
        total_frames |-> total,
        sample_rate |-> rate,
        burned_pixels |->
            [k \in 1..Len(burned) |->
                [lat |-> pixel_to_latlon(burned[k], 0).lat,
                 lon |-> pixel_to_latlon(burned[k], 0).lon,
                 time |-> ignition[burned[k]]]],
        grid |-> [width |-> MaxCells, height |-> 1]]

\* The payloads json.dumps(anim_data) writes into the enumerated pages; no page is
\* written for sample_rate = 0, on which prepare_animation_data raises.
Pages ==
    UNION {{AnimationData(total, rate, ignition) :
                ignition \in [0..(MaxCells - 1) -> -1..(total - 1)]} :
           total \in 0..MaxFrames, rate \in SampleRates \ {0}}

\* const totalFrames = animData.total_frames
totalFrames == anim_data.total_frames

\* const sampleRate = animData.sample_rate
sampleRate == anim_data.sample_rate

\* Two of the delays of the speedSelect options: the selected one and a faster one.
Speeds == {500, 250}

\* Math.floor(a / b) of integers, b # 0.
Floor(a, b) == IF b > 0 THEN a \div b ELSE (0 - a) \div (0 - b)

\* Variant of Bucket that files a pixel under its own ignition time.
Bucket_Unsampled(time) == time

\* The key of burnedByTime under which a burned pixel is filed.
Bucket(time) == Floor(time, sampleRate) * sampleRate

\* burnedByTime[tt] || []
burnedByTime(tt) ==
    SelectSeq(anim_data.burned_pixels, LAMBDA p : Bucket(p.time) = tt)

\* createPixelRect(lat, lon, ...): half a pixel to each side of (lat, lon); the pixel is
\* two half cells high and wide.
createPixelRect(lat, lon) == <<<<lat - 1, lon - 1>>, <<lat + 1, lon + 1>>>>

RECURSIVE NewBurnedRects(_, _)
\* for (let t = ...; t <= currentFrame; t += sampleRate): the entries pushed on
\* burnedRects from bucket tt on. The loop runs only after a frame was found, which
\* needs a sampleRate >= 1.
NewBurnedRects(tt, frame) ==
    IF tt > frame THEN <<>>
    ELSE [k \in 1..Len(burnedByTime(tt)) |->
              [time |-> tt,
               rect |-> createPixelRect(burnedByTime(tt)[k].lat, burnedByTime(tt)[k].lon)]]
         \o NewBurnedRects(tt + sampleRate, frame)

\* updateVisualization() at frame, from the cache rects drawn up to frame index last:
\* what it leaves in the layers, the cache and lastBurnedFrame. frame.burning of an
\* undefined frame throws TypeError after burningLayer was cleared. updateStats, which
\* ends it, only prints values computed from this state.
updateVisualization(frame, last, rects, layer) ==
    LET frameIndex == Floor(frame, sampleRate)
        at == IF frameIndex < Len(anim_data.frames) - 1
              THEN frameIndex ELSE Len(anim_data.frames) - 1
    IN IF at < 0
       THEN [error |-> "TypeError", burningLayer |-> <<>>, burnedLayer |-> layer,
             burnedRects |-> rects, lastBurnedFrame |-> last]
       ELSE LET new == NewBurnedRects((last + 1) * sampleRate, frame)
            IN [error |-> "none",
                burningLayer |->
                    [k \in 1..Len(anim_data.frames[at + 1].burning) |->
                        createPixelRect(anim_data.frames[at + 1].burning[k].lat,
                                        anim_data.frames[at + 1].burning[k].lon)],
                burnedLayer |-> layer \o [k \in 1..Len(new) |-> new[k].rect],
                burnedRects |-> rects \o new,
                lastBurnedFrame |-> frameIndex]

\* The state a call of updateVisualization leaves.
Redraw(frame, last, rects, layer) ==
    LET drawn == updateVisualization(frame, last, rects, layer)
    IN /\ error' = drawn.error
       /\ burningLayer' = drawn.burningLayer
       /\ burnedLayer' = drawn.burnedLayer
       /\ burnedRects' = drawn.burnedRects
       /\ lastBurnedFrame' = drawn.lastBurnedFrame

\* Variant of stopPlayback that forgets the handle and leaves the interval running.
stopPlayback_NoClear(handle, installed) == [playInterval |-> 0, timers |-> installed]

\* stopPlayback(): the interval of playInterval is cleared and playInterval set to null.
stopPlayback(handle, installed) ==
    IF handle # 0
    THEN [playInterval |-> 0, timers |-> {tm \in installed : tm.id # handle}]
    ELSE [playInterval |-> handle, timers |-> installed]

\* startPlayback(): an interval still held is cleared and a new one installed.
startPlayback(handle, installed, delay) ==
    LET kept == IF handle # 0 THEN {tm \in installed : tm.id # handle} ELSE installed
        id == CHOOSE n \in 1..(Cardinality(kept) + 1) : \A tm \in kept : tm.id # n
    IN [playInterval |-> id, timers |-> kept \cup {[id |-> id, delay |-> delay]}]

\* togglePlay(): isPlaying is negated and playback started or stopped accordingly.
TogglePlay ==
    /\ isPlaying' = ~isPlaying
    /\ LET r == IF ~isPlaying THEN startPlayback(playInterval, timers, speed)
                ELSE stopPlayback(playInterval, timers)
       IN playInterval' = r.playInterval /\ timers' = r.timers

\* The variables the page's script never writes.
pythonVars == <<script, pc, runVars, palette, gradient, config, cell, coords, projection,
                fire_pos, fire_start, reference>>

\* "Inicializar": the updateVisualization() that ends the script; an exception it throws
\* ends the script with every handler defined.
initial_draw ==
    /\ script = "player" /\ pc = "loading"
    /\ Redraw(currentFrame, lastBurnedFrame, burnedRects, burnedLayer)
    /\ pc' = "ready"
    /\ UNCHANGED <<script, runVars, palette, gradient, config, cell, coords, projection,
                   fire_pos, fire_start, currentFrame, isPlaying, playInterval, timers,
                   speed, reference>>

\* onclick of playBtn
togglePlay ==
    /\ script = "player" /\ pc = "ready"
    /\ TogglePlay
    /\ UNCHANGED <<pythonVars, error, currentFrame, speed, lastBurnedFrame, burnedRects,
                   burnedLayer, burningLayer>>

\* The frames the enumeration follows: a page written with a negative sample rate
\* counts without end.
InWindow(frame) == frame \in (0 - MaxFrames)..(2 * MaxFrames)

\* Variant of AtEnd that waits for the last frame itself.
AtEnd_Exactly(frame) == frame = totalFrames - 1

\* "currentFrame >= totalFrames - 1" of the interval's callback.
AtEnd(frame) == frame >= totalFrames - 1

\* One firing of an installed interval (the callback of setInterval in startPlayback).
tick ==
    /\ script = "player" /\ pc = "ready"
    /\ \E tm \in timers :
          IF AtEnd(currentFrame)
          THEN /\ TogglePlay
               /\ UNCHANGED <<error, currentFrame, lastBurnedFrame, burnedRects,
                              burnedLayer, burningLayer>>
          ELSE /\ InWindow(currentFrame + sampleRate)
               /\ currentFrame' = currentFrame + sampleRate
               /\ Redraw(currentFrame + sampleRate, lastBurnedFrame, burnedRects,
                         burnedLayer)
               /\ UNCHANGED <<isPlaying, playInterval, timers>>
    /\ UNCHANGED <<pythonVars, speed>>

\* onclick of the reset button
resetAnimation ==
    /\ script = "player" /\ pc = "ready"
    /\ LET r == stopPlayback(playInterval, timers)
       IN playInterval' = r.playInterval /\ timers' = r.timers
    /\ isPlaying' = FALSE
    /\ currentFrame' = 0
    /\ Redraw(0, -1, <<>>, <<>>)
    /\ UNCHANGED <<pythonVars, speed>>

\* seekTo(frame) at currentFrame = from: a seek backwards empties the layer and the
\* cache first.
SeekTo(frame, from) ==
    /\ currentFrame' = frame
    /\ IF frame < from
       THEN Redraw(frame, -1, <<>>, <<>>)
       ELSE Redraw(frame, lastBurnedFrame, burnedRects, burnedLayer)

\* oninput of timeSlider (min 0, max total_frames - 1)
seekTo ==
    /\ script = "player" /\ pc = "ready"
    /\ \E frame \in 0..(totalFrames - 1) : SeekTo(frame, currentFrame)
    /\ UNCHANGED <<pythonVars, isPlaying, playInterval, timers, speed>>

\* onclick of the step-forward button
stepForward ==
    /\ script = "player" /\ pc = "ready"
    /\ currentFrame < totalFrames - 1
    /\ InWindow(currentFrame + sampleRate)
    /\ currentFrame' = currentFrame + sampleRate
    /\ Redraw(currentFrame + sampleRate, lastBurnedFrame, burnedRects, burnedLayer)
    /\ UNCHANGED <<pythonVars, isPlaying, playInterval, timers, speed>>

\* onclick of the step-backward button: seekTo(Math.max(0, currentFrame - sampleRate))
stepBackward ==
    /\ script = "player" /\ pc = "ready"
    /\ currentFrame > 0
    /\ InWindow(currentFrame - sampleRate)
    /\ SeekTo(IF currentFrame - sampleRate > 0 THEN currentFrame - sampleRate ELSE 0,
              currentFrame)
    /\ UNCHANGED <<pythonVars, isPlaying, playInterval, timers, speed>>

\* onchange of speedSelect: a running playback is restarted with the new delay.
changeSpeed ==
    /\ script = "player" /\ pc = "ready"
    /\ \E newSpeed \in Speeds :
          /\ speed' = newSpeed
          /\ IF isPlaying
             THEN LET stopped == stopPlayback(playInterval, timers)
                      r == startPlayback(stopped.playInterval, stopped.timers, newSpeed)
                  IN playInterval' = r.playInterval /\ timers' = r.timers
             ELSE UNCHANGED <<playInterval, timers>>
    /\ UNCHANGED <<pythonVars, error, currentFrame, isPlaying, lastBurnedFrame,
                   burnedRects, burnedLayer, burningLayer>>

\* A generated page is opened: its script has declared its state and is about to draw.
PlayerInit ==
    /\ script = "player"
    /\ pc = "loading"
    /\ error = "none"
    /\ fire_map = <<>>
    /\ shape = <<0, 1, 1>>
    /\ grid = <<0, 0>>
    /\ burn_time = <<>>
    /\ t = 0
    /\ max_time = None
    /\ features = <<>>
    /\ geojson_metadata = None
    /\ stats = None
    /\ rectangles = <<>>
    /\ legend = None
    /\ sample_rate = None
    /\ frames_data = <<>>
    /\ anim_data \in Pages
    /\ palette = None
    /\ gradient = <<>>
    /\ config = None
    /\ cell = <<0, 0>>
    /\ coords = None
    /\ projection = None
    /\ reference = <<>>
    /\ fire_pos = None
    /\ fire_start = None
    /\ PlayerLoaded

\* What the user does with the controls.
UserInput ==
    \/ togglePlay
    \/ resetAnimation
    \/ seekTo
    \/ stepForward
    \/ stepBackward
    \/ changeSpeed

PlayerNext == initial_draw \/ tick \/ UserInput

PlayerSpec == PlayerInit /\ [][PlayerNext]_vars

\* The page left alone while it plays: the controls are used only while it is paused.
AutoplayNext == initial_draw \/ tick \/ (~isPlaying /\ UserInput)

\* An installed interval keeps firing.
AutoplaySpec == PlayerInit /\ [][AutoplayNext]_vars /\ WF_vars(tick)

----------------------------------------------------------------------------
(* Properties *)

\* burn_time is allocated with the shape of the loaded array.
MatrixReady == burn_time # <<>> /\ Rows(burn_time) = H /\ Cols(burn_time) = W

\* ... and the loop over t has run to its end.
ReductionComplete == MatrixReady /\ (pc = "reduce" => t = T)

Cells == (0..(H - 1)) \X (0..(W - 1))

\* C1: whenever a cell's burn time is not -1, the cell's state at that time is >= 1
\* and its state at every earlier time is 0 (the value is the first ignition).
C1_FirstIgnition ==
    MatrixReady =>
        \A c \in Cells :
            LET v == burn_time[c[1]][c[2]] IN
            v # -1 =>
                /\ v \in 0..(T - 1)
                /\ fire_map[v][c[1]][c[2]] >= 1
                /\ \A u \in 0..(v - 1) : fire_map[u][c[1]][c[2]] = 0

\* A finished reduction with a cell that ignited after an unburned first snapshot
\* and was at >= 1 again in a later snapshot.
C1_Witness ==
    /\ ReductionComplete
    /\ \E c \in Cells :
          /\ burn_time[c[1]][c[2]] >= 1
          /\ burn_time[c[1]][c[2]] < T - 1
          /\ fire_map[T - 1][c[1]][c[2]] >= 1

\* C2: after the reduction every entry is -1 or in 0..T-1, and it is -1 exactly
\* when the cell is 0 in all T snapshots.
C2_RangeAndNeverIgnited ==
    ReductionComplete =>
        \A c \in Cells :
            /\ burn_time[c[1]][c[2]] \in {-1} \cup (0..(T - 1))
            /\ burn_time[c[1]][c[2]] = -1
                  <=> \A u \in 0..(T - 1) : fire_map[u][c[1]][c[2]] = 0

\* A finished reduction over T >= 2 snapshots with a never-ignited cell and a cell
\* that only burns (state 1) in the last snapshot.
C2_Witness ==
    /\ ReductionComplete
    /\ T >= 2
    /\ \E c \in Cells : burn_time[c[1]][c[2]] = -1
    /\ \E c \in Cells :
          burn_time[c[1]][c[2]] = T - 1 /\ fire_map[T - 1][c[1]][c[2]] = 1

\* C3: a step of the reduction leaves a cell alone or takes it from -1 to the current
\* t; a cell that is not -1 is never changed. t only moves forward by one.
C3_WriteOnce ==
    [][(burn_time # <<>> /\ burn_time' # <<>>) =>
          /\ \A y \in DOMAIN burn_time : \A x \in DOMAIN burn_time[y] :
                \/ burn_time'[y][x] = burn_time[y][x]
                \/ burn_time[y][x] = -1 /\ burn_time'[y][x] = t
          /\ (pc = "reduce" /\ pc' = "reduce") => t' = t + 1]_vars

\* The loop has passed a snapshot in which an already ignited cell was >= 1 again.
C3_Witness ==
    /\ MatrixReady
    /\ pc = "reduce"
    /\ \E c \in Cells :
          /\ burn_time[c[1]][c[2]] # -1
          /\ burn_time[c[1]][c[2]] + 1 < t
          /\ fire_map[t - 1][c[1]][c[2]] >= 1

PairShapes ==
    {s \in Shapes : (IF s[1] = 0 THEN 1 ELSE s[1]) * s[2] * s[3] <= MaxPairVolume}

\* The snapshots of cell c agree in a and b up to and including a's first >= 1.
AgreeUntilIgnition(a, b, c) ==
    \A u \in 0..(T - 1) :
        (\A w \in 0..(u - 1) : a[w][c[1]][c[2]] = 0) =>
            a[u][c[1]][c[2]] = b[u][c[1]][c[2]]

\* C4: a stack of the same shape that agrees with fire_map, for a cell, up to and
\* including the cell's first ignition gets the same burn time for that cell, whatever
\* its later states are. (fire_map is compared with every stack of its shape, for the
\* shapes up to MaxPairVolume.)
C4_IndependentOfLaterStates ==
    (script = "export" /\ pc = "done" /\ shape \in PairShapes) =>
        \A other \in Stacks(shape) :
            LET reduced == BurnTimeMatrixOf(other) IN
            \A c \in Cells :
                AgreeUntilIgnition(fire_map, other, c) =>
                    reduced[c[1]][c[2]] = burn_time[c[1]][c[2]]

\* The export has reduced a stack with a cell that ignites before the last snapshot,
\* so that stacks differing from it after the ignition exist.
C4_Witness ==
    /\ script = "export" /\ pc = "done" /\ shape \in PairShapes
    /\ \E c \in Cells :
          /\ burn_time[c[1]][c[2]] >= 0
          /\ burn_time[c[1]][c[2]] < T - 1
          /\ \E other \in Stacks(shape) :
                /\ AgreeUntilIgnition(fire_map, other, c)
                /\ other[T - 1][c[1]][c[2]] # fire_map[T - 1][c[1]][c[2]]

ScenarioMatrix ==
    [y \in 0..1 |-> [x \in 0..1 |->
        IF y = 1 THEN -1 ELSE IF x = 0 THEN 1 ELSE 2]]

\* C5: for the 2 x 2, T = 3 example the reduction yields [[1, 2], [-1, -1]] and
\* max_time = 2.
C5_Scenario ==
    fire_map = ScenarioStates =>
        /\ ReductionComplete => burn_time = ScenarioMatrix
        /\ (script = "export" /\ pc = "done") =>
              max_time = 2 /\ geojson_metadata.max_burn_time = 2
        /\ (script = "visualize" /\ pc = "done") => max_time = 2

\* The export of the example has finished.
C5_Witness ==
    fire_map = ScenarioStates /\ script = "export" /\ pc = "done"

NoIgnition ==
    \A u \in 0..(T - 1) : \A c \in Cells : fire_map[u][c[1]][c[2]] = 0

\* C6: when no cell ever reaches state >= 1, the max_time used for normalisation and
\* the legend and reported as max_burn_time is 0, never negative. (Stated for a stack
\* with at least one snapshot.)
C6_MaxTimeZeroWithoutIgnition ==
    (T >= 1 /\ NoIgnition) =>
        /\ (script = "export" /\ pc = "done") =>
              max_time = 0 /\ geojson_metadata.max_burn_time = 0
        /\ (script = "visualize" /\ pc \in {"stats", "done"}) =>
              stats.max_burn_time = 0
        /\ (script = "visualize" /\ pc = "done") =>
              max_time = 0 /\ legend.max_time = 0

\* C7: with max_time = 0 no normalisation divides by zero and every normalised time
\* (burn_time_normalized of a feature, t of time_to_color for a rectangle or a legend
\* stop) is 0; time_to_color_rgb computes no t at all then.
C7_NormalizedZero ==
    /\ (script = "export" /\ pc = "done" /\ max_time = 0) =>
          \A i \in 1..Len(features) :
              /\ IsZero(features[i].burn_time_normalized)
              /\ features[i].color_rgb.grey
    /\ (script = "visualize" /\ pc = "done" /\ max_time = 0) =>
          /\ \A i \in 1..Len(rectangles) :
                ~rectangles[i].color.unburned /\ IsZero(rectangles[i].color.t)
          /\ \A i \in 1..6 :
                ~legend.colors[i].color.unburned /\ IsZero(legend.colors[i].color.t)

\* An export whose burned cells all ignited in snapshot 0 has written a feature.
C7_Witness ==
    script = "export" /\ pc = "done" /\ max_time = 0 /\ Len(features) >= 1

\* C8: with sample_rate >= 1 the frames are those of t = 0, sample_rate,
\* 2 * sample_rate, ... <= T - 1, in increasing order, and no others.
C8_SampledTimes ==
    (script = "animate" /\ pc \in {"frames", "reduce", "done"} /\ sample_rate >= 1) =>
        /\ \A i \in 1..Len(frames_data) :
              /\ frames_data[i].time = (i - 1) * sample_rate
              /\ frames_data[i].time <= T - 1
        /\ pc \in {"reduce", "done"} =>
              Len(frames_data) = (T + sample_rate - 1) \div sample_rate
        /\ pc = "done" => anim_data.frames = frames_data

\* Stride 2 on 4 snapshots has returned exactly the frames of t = 0 and t = 2.
C8_Witness ==
    /\ script = "animate" /\ pc = "done" /\ sample_rate = 2 /\ T = 4
    /\ Len(anim_data.frames) = 2
    /\ anim_data.frames[1].time = 0
    /\ anim_data.frames[2].time = 2

\* C9: in every returned frame of time t, burning_count is the number of cells with
\* states[t] = 1 and the length of the burning list, and burned_count is the number
\* of cells with states[t] = 2 in that snapshot alone.
C9_FrameCounts ==
    (script = "animate" /\ pc = "done") =>
        \A i \in 1..Len(anim_data.frames) :
            LET f == anim_data.frames[i] IN
            /\ f.burning_count = CountEqual(fire_map[f.time], 1)
            /\ f.burning_count = Len(f.burning)
            /\ f.burned_count = CountEqual(fire_map[f.time], 2)

\* A returned animation whose second frame has fewer burned cells than its first,
\* and a burning cell.
C9_Witness ==
    /\ script = "animate" /\ pc = "done"
    /\ Len(anim_data.frames) >= 2
    /\ anim_data.frames[2].burned_count < anim_data.frames[1].burned_count
    /\ anim_data.frames[2].burning_count >= 1

\* C10: sampling with sample_rate < 1 is rejected with an error and returns no frame
\* sequence, not even an empty one. (Stated for a stack with at least one snapshot.)
C10_NonPositiveStrideRejected ==
    (script = "animate" /\ pc = "done" /\ T >= 1) => anim_data.sample_rate >= 1

----------------------------------------------------------------------------
(* Properties of the colour functions (ColorSpec) *)

Grey == [r |-> 128, g |-> 128, b |-> 128]

\* C11: a negative burn_time gets the unburned sentinel whatever max_time is:
\* None from time_to_color, grey (128, 128, 128) from time_to_color_rgb.
C11_UnburnedSentinel ==
    \A i \in DOMAIN gradient :
        gradient[i].burn_time < 0 =>
            IF script = "time_to_color"
            THEN gradient[i].color.none
            ELSE gradient[i].color = Grey

\* A colour function was called with burn_time = -1 and a positive max_time.
C11_Witness ==
    /\ script \in {"time_to_color", "time_to_color_rgb"}
    /\ palette.max_time > 0
    /\ Len(gradient) >= 1
    /\ gradient[1].burn_time = -1
    /\ script = "time_to_color" => gradient[1].color = [none |-> TRUE]

\* C12: a cell that ignited (burn_time >= 0) is coloured by the palette, also when
\* max_time = 0: no feature of the export carries the unburned grey and no rectangle
\* of the map the unburned None.
C12_IgnitedNeverSentinel ==
    /\ (script = "export" /\ pc = "done") =>
          \A i \in 1..Len(features) :
              features[i].burn_time >= 0 => ~features[i].color_rgb.grey
    /\ (script = "visualize" /\ pc = "done") =>
          \A i \in 1..Len(rectangles) : ~rectangles[i].color.unburned

\* The colour time_to_color builds for t = 0: the first anchor of the palette.
FirstAnchor(colormap) ==
    IF colormap = "YlOrRd" THEN [none |-> FALSE, r |-> 255, g |-> 255, b |-> 200]
    ELSE IF colormap = "inferno" THEN [none |-> FALSE, r |-> 0, g |-> 0, b |-> 0]
    ELSE [none |-> FALSE, r |-> 255, g |-> 0, b |-> 0]

\* The colour time_to_color builds for t = 1: the last anchor of the palette.
LastAnchor(colormap) ==
    IF colormap = "YlOrRd" THEN [none |-> FALSE, r |-> 139, g |-> 0, b |-> 0]
    ELSE IF colormap = "inferno" THEN [none |-> FALSE, r |-> 255, g |-> 255, b |-> 150]
    ELSE [none |-> FALSE, r |-> 139, g |-> 69, b |-> 19]

\* C13: with max_time >= 1, time_to_color gives burn_time 0 the first anchor of the
\* palette and burn_time = max_time the last one: light yellow to dark red for
\* YlOrRd, black to light yellow for inferno (and red to brown for the others).
C13_PaletteEndpoints ==
    (script = "time_to_color" /\ palette.max_time >= 1) =>
        \A i \in DOMAIN gradient :
            /\ gradient[i].burn_time = 0 =>
                  gradient[i].color = FirstAnchor(palette.colormap)
            /\ gradient[i].burn_time = palette.max_time =>
                  gradient[i].color = LastAnchor(palette.colormap)

\* The inferno palette was walked from 0 to a max_time that is no power of two.
C13_Witness ==
    /\ script = "time_to_color"
    /\ palette.colormap = "inferno"
    /\ palette.max_time = 3
    /\ Len(gradient) = 5
    /\ gradient[2].color = [none |-> FALSE, r |-> 0, g |-> 0, b |-> 0]
    /\ gradient[5].color = [none |-> FALSE, r |-> 255, g |-> 255, b |-> 150]

\* C14: with max_time >= 1, time_to_color_rgb gives burn_time 0 red (255, 0, 0) and
\* burn_time = max_time yellow (255, 255, 0).
C14_RedToYellow ==
    (script = "time_to_color_rgb" /\ palette.max_time >= 1) =>
        \A i \in DOMAIN gradient :
            /\ gradient[i].burn_time = 0 =>
                  gradient[i].color = [r |-> 255, g |-> 0, b |-> 0]
            /\ gradient[i].burn_time = palette.max_time =>
                  gradient[i].color = [r |-> 255, g |-> 255, b |-> 0]

\* C15: for every burn_time >= 0 and every max_time, burn_time > max_time included,
\* each of R, G and B is an integer in 0..255.
C15_ChannelsInByteRange ==
    script \in {"time_to_color", "time_to_color_rgb"} =>
        \A i \in DOMAIN gradient :
            gradient[i].burn_time >= 0 =>
                /\ script = "time_to_color" => ~gradient[i].color.none
                /\ gradient[i].color.r \in 0..255
                /\ gradient[i].color.g \in 0..255
                /\ gradient[i].color.b \in 0..255

\* The linear segment of the palette that t = bt / mt falls in (mt >= 1): the
\* branches "t < 0.5" of YlOrRd and time_to_color_rgb, "t < 0.25 / 0.5 / 0.75"
\* of inferno; the else branch of time_to_color has one segment.
Segment(bt, mt, colormap) ==
    IF colormap = "inferno"
    THEN IF 4 * bt < mt THEN 1 ELSE IF 2 * bt < mt THEN 2 ELSE IF 4 * bt < 3 * mt THEN 3 ELSE 4
    ELSE IF colormap = "Reds" THEN 1
    ELSE IF 2 * bt < mt THEN 1 ELSE 2

\* The calls made so far with 0 <= burn_time <= max_time that fall in segment s.
InSegment(s) ==
    {i \in DOMAIN gradient :
        /\ gradient[i].burn_time >= 0
        /\ gradient[i].burn_time <= palette.max_time
        /\ Segment(gradient[i].burn_time, palette.max_time, palette.colormap) = s}

----------------------------------------------------------------------------
(* Properties of the projection (GeoSpec, ConfigSpec) *)

\* C17: the corner projection of (0, 0) is (north_lat, west_lon) and that of
\* (grid_width, grid_height) is (south_lat, east_lon), for every grid.
C17_Corners ==
    /\ (script = "visualize" /\ pc = "projected") =>
          /\ visualizer_latlon(0, 0) = [lat |-> coords.north_lat, lon |-> coords.west_lon]
          /\ visualizer_latlon(coords.grid_width, coords.grid_height) =
                [lat |-> coords.south_lat, lon |-> coords.east_lon]
    /\ (script = "export" /\ pc = "projected") =>
          nw_corner(0, 0) = [lat |-> coords.north_lat, lon |-> coords.west_lon]

\* C18: the rectangles tile exactly: the east edge of pixel (x, y) is the west edge
\* of (x + 1, y) and its south edge is the north edge of (x, y + 1), in the bounds
\* of the visualizer and in the polygons of the export.
C18_Tiling ==
    /\ (script = "visualize" /\ pc = "projected") =>
          LET b == get_pixel_bounds(cell[1], cell[2])
          IN /\ b[2][2] = visualizer_latlon(cell[1] + 1, cell[2]).lon
             /\ b[1][1] = visualizer_latlon(cell[1], cell[2] + 1).lat
    /\ (script = "export" /\ pc = "projected") =>
          /\ se_corner.lon = nw_corner(cell[1] + 1, cell[2]).lon
          /\ se_corner.lat = nw_corner(cell[1], cell[2] + 1).lat

\* C19: with any of operational.latitude, operational.longitude, area.screen_size
\* and area.pixel_scale missing, each consumer goes on without error, with
\* -16.571175, -49.181467, [100, 100] and 50 in place of what is missing.
C19_DefaultsWhenMissing ==
    (script \in Scripts /\ pc \in {"project", "projected", "failed"}) =>
        /\ error = "none"
        /\ coords.center_lat = Get(config.operational, "latitude", DefaultLatitude)
        /\ coords.center_lon = Get(config.operational, "longitude", DefaultLongitude)
        /\ <<coords.grid_height, coords.grid_width>> =
              Get(config.area, "screen_size", DefaultScreenSize)
        /\ coords.pixel_scale_ft = Get(config.area, "pixel_scale", DefaultPixelScale)

----------------------------------------------------------------------------
(* Declared grid against the shape of the array (Spec) *)

\* C20: when the array's rows and columns differ from the declared grid_height and
\* grid_width, no map and no animation payload is produced: a visualizer that drew
\* its map, and an animation that sampled a non-empty stack with a stride >= 1 and
\* returned its payload, had a declared grid equal to the array's shape.
C20_ShapeMismatchIsFatal ==
    /\ (script = "visualize" /\ pc = "done") =>
          error = "none" /\ grid = <<H, W>>
    /\ (script = "animate" /\ pc = "done" /\ T >= 1 /\ sample_rate >= 1) =>
          error = "none" /\ grid = <<H, W>>

----------------------------------------------------------------------------
(* The fire-start marker *)

\* A string of the form "(x, y)": one opening and one closing parenthesis around exactly
\* two comma-separated integers.
WellFormed(s) ==
    /\ Len(s) >= 2 /\ s[1] = "(" /\ s[Len(s)] = ")"
    /\ LET fields == split(SubSeq(s, 2, Len(s) - 1), ",")
       IN Len(fields) = 2 /\ IsInt(fields[1]) /\ IsInt(fields[2])

\* C21: when the configured position is a string that is not of the form "(x, y)" with
\* two integers, generating the map or the page fails with an error and no fire-start
\* marker is placed (in particular none at the default (50, 70)).
C21_MalformedStringFails ==
    (pc # "marker" /\ fire_pos.kind = "str" /\ ~WellFormed(fire_pos.text))
        => (pc = "failed" /\ error # "none" /\ fire_start = None)

\* C22: when the configured position is a numeric pair (x, y), the fire-start marker is
\* placed at the projection of that pair, as for the string "(x, y)".
C22_NumericPairIsUsed ==
    (pc # "marker" /\ fire_pos.kind = "pair")
        => /\ pc = "done"
           /\ fire_start =
                 [x |-> fire_pos.x, y |-> fire_pos.y,
                  lat |-> IF script = "visualize"
                          THEN corner_to_latlon(fire_pos.x, fire_pos.y).lat
                          ELSE pixel_to_latlon(fire_pos.x, fire_pos.y).lat,
                  lon |-> IF script = "visualize"
                          THEN corner_to_latlon(fire_pos.x, fire_pos.y).lon
                          ELSE pixel_to_latlon(fire_pos.x, fire_pos.y).lon]

----------------------------------------------------------------------------
(* The player *)

\* The rectangles of the ignited cells whose bucket is not after currentFrame.
DueRects ==
    {createPixelRect(anim_data.burned_pixels[k].lat, anim_data.burned_pixels[k].lon) :
        k \in {i \in 1..Len(anim_data.burned_pixels) :
                  Floor(anim_data.burned_pixels[i].time, sampleRate) * sampleRate
                      <= currentFrame}}

\* The burned layer holds each due rectangle once and nothing else.
LayerIsDue ==
    /\ {burnedLayer[k] : k \in 1..Len(burnedLayer)} = DueRects
    /\ Len(burnedLayer) = Cardinality(DueRects)

\* C23: after the initial draw and any sequence of ticks, steps, seeks and resets, the
\* burned layer holds exactly one rectangle for each ignited cell whose bucket
\* floor(ignition_time / sampleRate) * sampleRate is <= currentFrame, and no other.
C23_BurnedLayerIsDue == (script = "player" /\ pc = "ready") => LayerIsDue

\* The same for the pages written with a sample rate >= 1.
C23_Sampled == (script = "player" /\ pc = "ready" /\ sampleRate >= 1) => LayerIsDue

\* C27: on a page written with a sample rate >= 1, currentFrame stays within
\* 0 .. totalFrames - 1, the range of the time slider, whatever the timer and the
\* controls do. (A page of an empty stack has an empty range and is left aside.)
C27_FrameInSliderRange ==
    (script = "player" /\ sampleRate >= 1 /\ totalFrames >= 1)
        => currentFrame \in 0..(totalFrames - 1)

\* C28: isPlaying is true exactly when playInterval holds an installed interval, and no
\* interval other than that of playInterval is installed.
C28_PlayingIffTimer ==
    script = "player" =>
        /\ isPlaying <=> playInterval # 0
        /\ \A tm \in timers : tm.id = playInterval
        /\ playInterval # 0 => \E tm \in timers : tm.id = playInterval
        /\ Cardinality(timers) <= 1

\* A playback restarted at the faster speed has advanced.
C28_Witness ==
    /\ script = "player" /\ isPlaying /\ currentFrame > 0
    /\ timers = {[id |-> playInterval, delay |-> 250]}

\* C29: on a page written with a sample rate >= 1, once playback runs and the controls
\* are left alone, playback stops by itself: the interval's callback finds
\* currentFrame >= totalFrames - 1, isPlaying becomes false and no interval is installed.
C29_PlaybackStops ==
    (script = "player" /\ isPlaying /\ sampleRate >= 1)
        ~> (~isPlaying /\ timers = {} /\ currentFrame >= totalFrames - 1)

\* Playback has run past the last frame and has stopped there.
C29_Witness ==
    /\ script = "player" /\ pc = "ready" /\ sampleRate >= 1 /\ totalFrames > 1
    /\ ~isPlaying /\ timers = {} /\ currentFrame > totalFrames - 1

----------------------------------------------------------------------------
(* The three reductions *)

\* C24: for a stack whose shape is the declared grid, the matrix the visualizer
\* (_compute_burn_time_matrix), the export (export_to_geojson) and the animation
\* (prepare_animation_data) each end with is the matrix export_burn_time_matrix computes
\* from that stack, so all of them are the same, cell for cell.
C24_SameIgnitionMatrix ==
    (/\ script \in Scripts
     /\ error = "none"
     /\ ReductionComplete
     /\ script = "animate" => grid = <<H, W>>)
        => burn_time = BurnTimeMatrixOf(fire_map)

\* The animation has reduced a stack of the declared shape in which one cell ignites
\* after the first snapshot and another never does.
C24_Witness ==
    /\ script = "animate" /\ error = "none" /\ pc = "done" /\ grid = <<H, W>>
    /\ \E c \in Cells : burn_time[c[1]][c[2]] >= 1
    /\ \E c \in Cells : burn_time[c[1]][c[2]] = -1

----------------------------------------------------------------------------
(* The same pixel in the three consumers *)

\* C25: the polygon of a pixel is the closed ring NW, NE, SE, SW, NW whose NW vertex is
\* the visualizer's corner projection of (x, y) and whose SE vertex is that of
\* (x + 1, y + 1): the rectangle of get_pixel_bounds(x, y).
C25_PolygonIsPixelBounds ==
    (script = "export" /\ pc = "projected" /\ reference # <<>>) =>
        LET nw == north_west(reference)
            se == south_east(reference)
        IN ring = <<<<nw.lon, nw.lat>>, <<se.lon, nw.lat>>, <<se.lon, se.lat>>,
                    <<nw.lon, se.lat>>, <<nw.lon, nw.lat>>>>

\* C26: the rectangle the page draws for a pixel, the centre extended by half a pixel
\* to each side, is the rectangle from the corner projection of (x, y) to that of
\* (x + 1, y + 1).
C26_RectIsPixelBounds ==
    (script = "animate" /\ pc = "projected" /\ reference # <<>>) =>
        projection.rect = reference

====
